---- MODULE Spec2Model ----
(***************************************************************************)
(* State-machine model of the Hexapod simulator's controller               *)
(* (src/Simulation/ui.py, class MainWindow) driving the Hexapod engine.    *)
(* The engine itself (models.py, constant.py) is not part of the sources   *)
(* at hand; its operations are modelled from the written specification.    *)
(***************************************************************************)
EXTENDS Integers, Sequences, FiniteSets

VARIABLES
    dim_sliders,       \* self.dim_sliders: label -> slider value
    leg_sliders,       \* self.leg_sliders: label -> slider value
    ik_sliders,        \* self.ik_sliders: label -> slider value
    gait_sliders,      \* self.gait_sliders: label -> slider value
    is_tripod_cb,      \* self.is_tripod_cb.isChecked()
    is_forward_cb,     \* self.is_forward_cb.isChecked()
    is_rotate_cb,      \* self.is_rotate_cb.isChecked()
    gait_step,         \* self.gait_step, the playback cursor
    gait_timer,        \* self.gait_timer: [active, interval]
    robot_dims,        \* the engine's committed (f, m, s, coxa, femur, tibia)
    dims_passed,       \* the vector last passed to robot.update_dimensions,
                       \* or NoDimensionsPassed (history variable)
    robot_pose,        \* the engine's leg state, by the call that last set it
    walking_sequence,  \* self.robot.walking_sequence, held as the parameter
                       \* set and the dimensions it was generated from
                       \* (WalkingSequence below is its content), or
                       \* NoWalkingSequence
    event,             \* the handler that ran last
    calls              \* the engine/plot calls that handler made, in order

vars == <<dim_sliders, leg_sliders, ik_sliders, gait_sliders,
          is_tripod_cb, is_forward_cb, is_rotate_cb, gait_step, gait_timer,
          robot_dims, dims_passed, robot_pose, walking_sequence, event, calls>>

dim_vars == <<dim_sliders, robot_dims, dims_passed>>
gait_ctl_vars == <<gait_sliders, is_tripod_cb, is_forward_cb, is_rotate_cb>>
play_vars == <<gait_step, gait_timer, walking_sequence>>

(***************************************************************************)
(* Bounds of the model.                                                    *)
(***************************************************************************)
\* The playback cursor is an unbounded Python int; playback actions are
\* enabled only while the cursor stays at or below this cap.
MaxGaitStep == 11

(***************************************************************************)
(* Widgets.                                                                *)
(***************************************************************************)
\* QSlider.setValue: the value is bound into [minimum, maximum].
SetValue(min_val, max_val, v) ==
    IF v < min_val THEN min_val ELSE IF v > max_val THEN max_val ELSE v

dim_labels == <<"Front", "Middle", "Side", "coxa", "Femur", "Tibia">>

DimLabels == {dim_labels[i] : i \in 1..Len(dim_labels)}

\* slider.setMinimum(1), slider.setMaximum(20) of the dimension sliders.
DimMinimum == 1

\* Variant: the dimension sliders reach one past the engine's range.
DimMaximumTwentyOne == 20 + 1

DimMaximum == 20

LegLabels == {"alpha", "beta", "gamma"}
LegMinimum == -180
LegMaximum == 180

translations == {"TX", "TY", "TZ"}
rotations == {"RX", "RY", "RZ"}
IkLabels == translations \cup rotations

\* The range of an inverse-kinematics slider.
IkMinimum(label) == IF label \in translations THEN -100 ELSE -30
IkMaximum(label) == IF label \in translations THEN 100 ELSE 30

\* Variant: the GaitStep slider starts at 0.
gait_params_step_from_zero ==
    [LiftSwing |-> [min_val |-> 10, max_val |-> 40, default_val |-> 20],
     HipSwing  |-> [min_val |-> 10, max_val |-> 40, default_val |-> 12],
     GaitStep  |-> [min_val |-> 0,  max_val |-> 20, default_val |-> 10],
     GaitSpeed |-> [min_val |-> 5,  max_val |-> 20, default_val |-> 10]]

gait_params ==
    [LiftSwing |-> [min_val |-> 10, max_val |-> 40, default_val |-> 20],
     HipSwing  |-> [min_val |-> 10, max_val |-> 40, default_val |-> 12],
     GaitStep  |-> [min_val |-> 5,  max_val |-> 20, default_val |-> 10],
     GaitSpeed |-> [min_val |-> 5,  max_val |-> 20, default_val |-> 10]]

GaitLabels == DOMAIN gait_params

\* The positions a slider is dragged to in this model: both ends of its range.
SliderEnds(min_val, max_val) == {min_val, max_val}

(***************************************************************************)
(* The engine (models.Hexapod), from the written specification.            *)
(***************************************************************************)
\* constant.py: the engine is constructed with dimensions and leg lengths
\* inside [1, 20].
DEFAULT_DIMSIONS == <<5, 8, 10>>
DEFAULT_LEG_LENGTH == <<3, 5, 7>>
default_values == DEFAULT_DIMSIONS \o DEFAULT_LEG_LENGTH

NeutralPose == [kind |-> "neutral"]

\* "absent until first generated": len(walking_sequence) == 0.
NoWalkingSequence == <<>>

LegIds == 0..5

PhaseGroups(gait) == IF gait = "Tripod" THEN 2 ELSE 6

\* InvalidGaitParameters: StepNum < 1, Speed <= 0, or HipSwing/LiftSwing
\* outside their configured slider bounds.
ValidGaitParameters(para) ==
    /\ para.StepNum >= 1
    /\ para.Speed > 0
    /\ para.HipSwing >= gait_params.HipSwing.min_val
    /\ para.HipSwing <= gait_params.HipSwing.max_val
    /\ para.LiftSwing >= gait_params.LiftSwing.min_val
    /\ para.LiftSwing <= gait_params.LiftSwing.max_val

\* The sub-phase of leg `leg` at sample index i (0-based) of one cycle.
\* Tripod: triad {0,2,4} is in stance on the first StepNum indices and in
\* swing on the next StepNum, triad {1,3,5} the other way round.
\* Ripple: leg k swings in the k-th sixth of the cycle, planted otherwise.
LegPhase(para, leg, i) ==
    IF para.Gait = "Tripod"
    THEN IF (leg % 2 = 0) = (i < para.StepNum) THEN "stance" ELSE "swing"
    ELSE IF i \div para.StepNum = leg THEN "swing" ELSE "stance"

\* One full cycle of StepNum x phaseGroups samples for each of the six legs;
\* leg id k is element k + 1.
generate_walking_sequence(para) ==
    [k \in 1..6 |->
        [i \in 1..(para.StepNum * PhaseGroups(para.Gait)) |->
            LegPhase(para, k - 1, i - 1)]]

\* set_pose_from_walking_sequence(t): all six legs take the joint angles of
\* frame t of the sequence.
set_pose_from_walking_sequence(t) == [kind |-> "frame", t |-> t]

\* update_dimensions(values) -> bool: false, and nothing committed, when a
\* value lies outside [1, 20].
ValidDimensions(values) ==
    /\ Len(values) = 6
    /\ \A i \in 1..Len(values) : values[i] >= 1 /\ values[i] <= 20

\* update_leg_pattern(values) -> bool: one angle triple for all six legs,
\* each angle within [-180, 180] degrees.
ValidLegPattern(values) ==
    \A i \in 1..Len(values) : values[i] >= -180 /\ values[i] <= 180

update_leg_pattern(values) == [kind |-> "pattern", angles |-> values]

\* solve_ik(rotation, translation): unreachable targets are clamped, so
\* the call always commits a pose.
solve_ik(rotation, translation) ==
    [kind |-> "ik", rotation |-> rotation, translation |-> translation]

(***************************************************************************)
(* Dimension sliders and the reset buttons.                                *)
(***************************************************************************)
\* [self.dim_sliders[label].value() for label in ['Front', ..., 'Tibia']]
DimValues(sliders) == [i \in 1..Len(dim_labels) |-> sliders[dim_labels[i]]]

\* The calls on_dimension_changed makes with the sliders at `sliders`.
DimensionCalls(sliders) ==
    LET values == DimValues(sliders)
        ok == ValidDimensions(values)
    IN  <<[op |-> "update_dimensions", values |-> values, ret |-> ok]>>
        \o (IF ok THEN <<[op |-> "update_plot"]>> ELSE <<>>)

\* The dimensions the engine holds after on_dimension_changed.
DimensionCommit(sliders, dims) ==
    IF ValidDimensions(DimValues(sliders)) THEN DimValues(sliders) ELSE dims

\* on_dimension_changed, reading the sliders as they are when the signal is
\* delivered.
on_dimension_changed(sliders) ==
    /\ robot_dims' = DimensionCommit(sliders, robot_dims)
    /\ dims_passed' = DimValues(sliders)
    /\ calls' = DimensionCalls(sliders)
    /\ event' = "on_dimension_changed"
    /\ UNCHANGED <<leg_sliders, ik_sliders, gait_ctl_vars, play_vars, robot_pose>>

DimensionSliderChanged(label, v) ==
    LET new == [dim_sliders EXCEPT ![label] = SetValue(DimMinimum, DimMaximum, v)]
    IN  /\ new # dim_sliders
        /\ dim_sliders' = new
        /\ on_dimension_changed(new)

\* No update_dimensions call has been made yet.
NoDimensionsPassed == <<>>

\* The vector last passed to update_dimensions once the calls cs are made,
\* prev being the one before them.
LastPassed(cs, prev) ==
    LET made == {i \in 1..Len(cs) : cs[i].op = "update_dimensions"}
    IN  IF made = {}
        THEN prev
        ELSE cs[CHOOSE i \in made : \A j \in made : j <= i].values

\* Variant: the sliders reset with their signals blocked, so that
\* on_dimension_changed never runs.
ResetFromSilently(i, st) ==
    [sliders |-> [l \in DOMAIN st.sliders |->
                    SetValue(DimMinimum, DimMaximum,
                             default_values[CHOOSE k \in 1..Len(dim_labels) :
                                               dim_labels[k] = l])],
     dims |-> st.dims,
     calls |-> st.calls]

\* reset_dimensions from its i-th setValue on: every setValue that changes
\* a slider delivers valueChanged to on_dimension_changed before the loop
\* goes on.  st = [sliders, dims, calls].
RECURSIVE ResetFrom(_, _)
ResetFrom(i, st) ==
    IF i > Len(dim_labels)
    THEN st
    ELSE LET label == dim_labels[i]
             new == [st.sliders EXCEPT
                        ![label] = SetValue(DimMinimum, DimMaximum, default_values[i])]
         IN  IF new = st.sliders
             THEN ResetFrom(i + 1, st)
             ELSE ResetFrom(i + 1,
                      [sliders |-> new,
                       dims |-> DimensionCommit(new, st.dims),
                       calls |-> st.calls \o DimensionCalls(new)])

reset_dimensions ==
    LET done == ResetFrom(1, [sliders |-> dim_sliders, dims |-> robot_dims,
                              calls |-> <<>>])
    IN  /\ dim_sliders' = done.sliders
        /\ robot_dims' = done.dims
        /\ dims_passed' = LastPassed(done.calls, dims_passed)
        /\ calls' = done.calls
        /\ event' = "reset_dimensions"
        /\ UNCHANGED <<leg_sliders, ik_sliders, gait_ctl_vars, play_vars, robot_pose>>

reset_view ==
    /\ calls' = <<[op |-> "update_plot"]>>
    /\ event' = "reset_view"
    /\ UNCHANGED <<dim_vars, leg_sliders, ik_sliders, gait_ctl_vars, play_vars,
                   robot_pose>>

(***************************************************************************)
(* Leg Pattern tab.                                                        *)
(***************************************************************************)
on_leg_pattern_changed(sliders) ==
    LET values == <<sliders.alpha, sliders.beta, sliders.gamma>>
        ok == ValidLegPattern(values)
    IN  /\ robot_pose' = IF ok THEN update_leg_pattern(values) ELSE robot_pose
        /\ calls' = <<[op |-> "update_leg_pattern", values |-> values, ret |-> ok]>>
                     \o (IF ok THEN <<[op |-> "update_plot"]>> ELSE <<>>)
        /\ event' = "on_leg_pattern_changed"
        /\ UNCHANGED <<dim_vars, ik_sliders, gait_ctl_vars, play_vars>>

LegSliderChanged(label, v) ==
    LET new == [leg_sliders EXCEPT ![label] = SetValue(LegMinimum, LegMaximum, v)]
    IN  /\ new # leg_sliders
        /\ leg_sliders' = new
        /\ on_leg_pattern_changed(new)

(***************************************************************************)
(* Inverse Kinematics tab.                                                 *)
(***************************************************************************)
\* [rx, ry, rz]
IkRotation(sliders) == <<sliders.RX, sliders.RY, sliders.RZ>>

\* Variant: tz scaled by lengths[1] (femur) instead of lengths[-1] (tibia).
IkTranslationFemur(sliders, dims) ==
    <<sliders.TX * dims[1], sliders.TY * dims[3], sliders.TZ * dims[5]>>

\* [tx, ty, tz] in hundredths of a length unit: slider * 0.01 * length is
\* held as the integer slider * length.  robot.body.f, robot.body.s and
\* robot.legs[0].lengths[-1] are the front, side and tibia dimensions.
IkTranslation(sliders, dims) ==
    <<sliders.TX * dims[1], sliders.TY * dims[3], sliders.TZ * dims[6]>>

on_ik_changed(sliders) ==
    LET rotation == IkRotation(sliders)
        translation == IkTranslation(sliders, robot_dims)
    IN  /\ robot_pose' = solve_ik(rotation, translation)
        /\ calls' = <<[op |-> "solve_ik", rotation |-> rotation,
                       translation |-> translation],
                      [op |-> "update_plot"]>>
        /\ event' = "on_ik_changed"
        /\ UNCHANGED <<dim_vars, leg_sliders, gait_ctl_vars, play_vars>>

IkSliderChanged(label, v) ==
    LET new == [ik_sliders EXCEPT ![label] = SetValue(IkMinimum(label), IkMaximum(label), v)]
    IN  /\ new # ik_sliders
        /\ ik_sliders' = new
        /\ on_ik_changed(new)

(***************************************************************************)
(* Gait tab.                                                               *)
(***************************************************************************)
\* Variant: StepNum read from the GaitSpeed slider.
GaitParaStepFromSpeed(sliders, is_tripod, is_forward, is_rotate) ==
    [HipSwing  |-> sliders.HipSwing,
     LiftSwing |-> sliders.LiftSwing,
     StepNum   |-> sliders.GaitSpeed,
     Speed     |-> sliders.GaitSpeed,
     Gait      |-> IF is_tripod THEN "Tripod" ELSE "Ripple",
     Direction |-> IF is_forward THEN 1 ELSE -1,
     Rotation  |-> IF is_rotate THEN 1 ELSE 0]

\* Variant: the Tripod checkbox read the wrong way round.
GaitParaGaitSwapped(sliders, is_tripod, is_forward, is_rotate) ==
    [HipSwing  |-> sliders.HipSwing,
     LiftSwing |-> sliders.LiftSwing,
     StepNum   |-> sliders.GaitStep,
     Speed     |-> sliders.GaitSpeed,
     Gait      |-> IF is_tripod THEN "Ripple" ELSE "Tripod",
     Direction |-> IF is_forward THEN 1 ELSE -1,
     Rotation  |-> IF is_rotate THEN 1 ELSE 0]

\* The parameter set built from the controls.
GaitPara(sliders, is_tripod, is_forward, is_rotate) ==
    [HipSwing  |-> sliders.HipSwing,
     LiftSwing |-> sliders.LiftSwing,
     StepNum   |-> sliders.GaitStep,
     Speed     |-> sliders.GaitSpeed,
     Gait      |-> IF is_tripod THEN "Tripod" ELSE "Ripple",
     Direction |-> IF is_forward THEN 1 ELSE -1,
     Rotation  |-> IF is_rotate THEN 1 ELSE 0]

\* Variant: the handler without self.gait_timer.stop().
on_gait_parameters_changed_keeps_timer(sliders, is_tripod, is_forward, is_rotate) ==
    LET para == GaitPara(sliders, is_tripod, is_forward, is_rotate) IN
    /\ calls' = <<[op |-> "generate_walking_sequence", para |-> para]>>
    /\ event' = "on_gait_parameters_changed"
    /\ IF ValidGaitParameters(para)
       THEN /\ walking_sequence' = [para |-> para, dims |-> robot_dims]
            /\ gait_step' = 0
            /\ UNCHANGED gait_timer
       ELSE UNCHANGED play_vars
    /\ UNCHANGED <<dim_vars, leg_sliders, ik_sliders, robot_pose>>

\* on_gait_parameters_changed, reading the controls as they are when the
\* signal is delivered.  A generate_walking_sequence that raises leaves the
\* handler before the timer is stopped and the cursor reset.
on_gait_parameters_changed(sliders, is_tripod, is_forward, is_rotate) ==
    LET para == GaitPara(sliders, is_tripod, is_forward, is_rotate) IN
    /\ calls' = <<[op |-> "generate_walking_sequence", para |-> para]>>
    /\ event' = "on_gait_parameters_changed"
    /\ IF ValidGaitParameters(para)
       THEN /\ walking_sequence' = [para |-> para, dims |-> robot_dims]
            /\ gait_timer' = [gait_timer EXCEPT !.active = FALSE]
            /\ gait_step' = 0
       ELSE UNCHANGED play_vars
    /\ UNCHANGED <<dim_vars, leg_sliders, ik_sliders, robot_pose>>

\* A gait slider is moved to v: valueChanged is emitted only when the value
\* changes.
GaitSliderChanged(label, v) ==
    LET p == gait_params[label]
        new == [gait_sliders EXCEPT ![label] = SetValue(p.min_val, p.max_val, v)]
    IN  /\ new # gait_sliders
        /\ gait_sliders' = new
        /\ UNCHANGED <<is_tripod_cb, is_forward_cb, is_rotate_cb>>
        /\ on_gait_parameters_changed(new, is_tripod_cb, is_forward_cb, is_rotate_cb)

TripodToggled ==
    /\ is_tripod_cb' = ~is_tripod_cb
    /\ UNCHANGED <<gait_sliders, is_forward_cb, is_rotate_cb>>
    /\ on_gait_parameters_changed(gait_sliders, ~is_tripod_cb, is_forward_cb, is_rotate_cb)

ForwardToggled ==
    /\ is_forward_cb' = ~is_forward_cb
    /\ UNCHANGED <<gait_sliders, is_tripod_cb, is_rotate_cb>>
    /\ on_gait_parameters_changed(gait_sliders, is_tripod_cb, ~is_forward_cb, is_rotate_cb)

RotateToggled ==
    /\ is_rotate_cb' = ~is_rotate_cb
    /\ UNCHANGED <<gait_sliders, is_tripod_cb, is_forward_cb>>
    /\ on_gait_parameters_changed(gait_sliders, is_tripod_cb, is_forward_cb, ~is_rotate_cb)

\* int(1000 / sp)
TimerInterval(sp) == 1000 \div sp

\* Variant: the interval computed only for the first start; afterwards
\* self.gait_timer.start() with the interval the timer already has.
on_gait_play_keeps_interval ==
    /\ gait_timer' = [active |-> TRUE,
                      interval |-> IF gait_timer.interval = 0
                                   THEN TimerInterval(gait_sliders.GaitSpeed)
                                   ELSE gait_timer.interval]
    /\ event' = "on_gait_play"
    /\ calls' = <<>>
    /\ UNCHANGED <<dim_vars, leg_sliders, ik_sliders, gait_ctl_vars,
                   gait_step, walking_sequence, robot_pose>>

on_gait_play ==
    /\ gait_timer' = [active |-> TRUE, interval |-> TimerInterval(gait_sliders.GaitSpeed)]
    /\ event' = "on_gait_play"
    /\ calls' = <<>>
    /\ UNCHANGED <<dim_vars, leg_sliders, ik_sliders, gait_ctl_vars,
                   gait_step, walking_sequence, robot_pose>>

\* Variant: Pause rewinds the cursor as well as stopping the timer.
on_gait_pause_rewinds ==
    /\ gait_timer' = [gait_timer EXCEPT !.active = FALSE]
    /\ gait_step' = 0
    /\ event' = "on_gait_pause"
    /\ calls' = <<>>
    /\ UNCHANGED <<dim_vars, leg_sliders, ik_sliders, gait_ctl_vars,
                   walking_sequence, robot_pose>>

on_gait_pause ==
    /\ gait_timer' = [gait_timer EXCEPT !.active = FALSE]
    /\ event' = "on_gait_pause"
    /\ calls' = <<>>
    /\ UNCHANGED <<dim_vars, leg_sliders, ik_sliders, gait_ctl_vars,
                   gait_step, walking_sequence, robot_pose>>

\* The content of self.robot.walking_sequence.
WalkingSequence ==
    IF walking_sequence = NoWalkingSequence
    THEN <<>>
    ELSE generate_walking_sequence(walking_sequence.para)

\* len(next(iter(self.robot.walking_sequence[0].values())))
NumSteps(ws) == Len(ws[1])

\* Variant: the cursor held at the last frame instead of wrapping.
FrameIndexClamped(c, num_steps) == IF c < num_steps THEN c ELSE num_steps - 1

\* t = self.gait_step % num_steps
FrameIndex(c, num_steps) == c % num_steps

\* Variant: the cursor written into the GaitStep slider as well as into
\* self.gait_step.
update_gait_writes_slider(c) ==
    /\ UNCHANGED <<is_tripod_cb, is_forward_cb, is_rotate_cb, walking_sequence>>
    /\ IF Len(WalkingSequence) = 0
       THEN /\ gait_step' = c
            /\ calls' = <<>>
            /\ UNCHANGED <<robot_pose, gait_sliders>>
       ELSE LET num_steps == NumSteps(WalkingSequence)
                t == FrameIndex(c, num_steps)
            IN  /\ robot_pose' = set_pose_from_walking_sequence(t)
                /\ calls' = <<[op |-> "set_pose_from_walking_sequence", t |-> t,
                               cursor |-> c, num_steps |-> num_steps],
                              [op |-> "update_plot"]>>
                /\ gait_step' = c + 1
                /\ gait_sliders' = [gait_sliders EXCEPT !.GaitStep =
                        SetValue(gait_params.GaitStep.min_val,
                                 gait_params.GaitStep.max_val, c + 1)]

\* update_gait, entered with the cursor at c.
update_gait(c) ==
    /\ UNCHANGED <<gait_ctl_vars, walking_sequence>>
    /\ IF Len(WalkingSequence) = 0
       THEN /\ gait_step' = c
            /\ calls' = <<>>
            /\ UNCHANGED robot_pose
       ELSE LET num_steps == NumSteps(WalkingSequence)
                t == FrameIndex(c, num_steps)
            IN  /\ robot_pose' = set_pose_from_walking_sequence(t)
                /\ calls' = <<[op |-> "set_pose_from_walking_sequence", t |-> t,
                               cursor |-> c, num_steps |-> num_steps],
                              [op |-> "update_plot"]>>
                /\ gait_step' = c + 1

\* The Step button.
on_gait_step ==
    /\ gait_step + 2 <= MaxGaitStep
    /\ update_gait(gait_step + 1)
    /\ event' = "on_gait_step"
    /\ UNCHANGED <<dim_vars, leg_sliders, ik_sliders, gait_timer>>

\* gait_timer.timeout, delivered only while the timer is active.
TimerTimeout ==
    /\ gait_timer.active
    /\ gait_step + 1 <= MaxGaitStep
    /\ update_gait(gait_step)
    /\ event' = "update_gait"
    /\ UNCHANGED <<dim_vars, leg_sliders, ik_sliders, gait_timer>>

\* update_gait in a run that never ends: the cursor is held as its residue
\* modulo the cycle length.  update_gait reads self.gait_step only through
\* gait_step % num_steps and a gait-parameter change sets it to 0, so the
\* residue decides every later frame exactly as the full integer does.
update_gait_cyclic(c) ==
    /\ UNCHANGED <<gait_ctl_vars, walking_sequence>>
    /\ IF Len(WalkingSequence) = 0
       THEN /\ gait_step' = c
            /\ calls' = <<>>
            /\ UNCHANGED robot_pose
       ELSE LET num_steps == NumSteps(WalkingSequence)
                t == FrameIndex(c, num_steps)
            IN  /\ robot_pose' = set_pose_from_walking_sequence(t)
                /\ calls' = <<[op |-> "set_pose_from_walking_sequence", t |-> t,
                               cursor |-> c, num_steps |-> num_steps],
                              [op |-> "update_plot"]>>
                /\ gait_step' = (c + 1) % num_steps

\* The Step button in such a run; without a sequence the cursor only grows,
\* and the press is taken while it stays under the cap.
on_gait_step_cyclic ==
    /\ walking_sequence = NoWalkingSequence => gait_step + 2 <= MaxGaitStep
    /\ update_gait_cyclic(gait_step + 1)
    /\ event' = "on_gait_step"
    /\ UNCHANGED <<dim_vars, leg_sliders, ik_sliders, gait_timer>>

\* gait_timer.timeout in such a run.
TimerTimeoutCyclic ==
    /\ gait_timer.active
    /\ walking_sequence = NoWalkingSequence => gait_step + 1 <= MaxGaitStep
    /\ update_gait_cyclic(gait_step)
    /\ event' = "update_gait"
    /\ UNCHANGED <<dim_vars, leg_sliders, ik_sliders, gait_timer>>

(***************************************************************************)
(* Construction and the specifications.                                    *)
(***************************************************************************)
Init ==
    /\ dim_sliders = [l \in DimLabels |->
            SetValue(DimMinimum, DimMaximum,
                     default_values[CHOOSE i \in 1..Len(dim_labels) : dim_labels[i] = l])]
    /\ leg_sliders = [l \in LegLabels |-> SetValue(LegMinimum, LegMaximum, 0)]
    /\ ik_sliders = [l \in IkLabels |-> SetValue(IkMinimum(l), IkMaximum(l), 0)]
    /\ gait_sliders = [l \in GaitLabels |->
            SetValue(gait_params[l].min_val, gait_params[l].max_val,
                     gait_params[l].default_val)]
    /\ is_tripod_cb = TRUE
    /\ is_forward_cb = TRUE
    /\ is_rotate_cb = FALSE
    /\ gait_step = 0
    /\ gait_timer = [active |-> FALSE, interval |-> 0]
    /\ robot_dims = default_values
    /\ dims_passed = NoDimensionsPassed
    /\ robot_pose = NeutralPose
    /\ walking_sequence = NoWalkingSequence
    /\ event = "__init__"
    /\ calls = <<[op |-> "update_plot"]>>

\* The Walking Gaits tab: its sliders, checkboxes, buttons and the timer.
Next ==
    \/ \E label \in GaitLabels :
         \E v \in SliderEnds(gait_params[label].min_val, gait_params[label].max_val) :
            GaitSliderChanged(label, v)
    \/ TripodToggled
    \/ ForwardToggled
    \/ RotateToggled
    \/ on_gait_play
    \/ on_gait_pause
    \/ on_gait_step
    \/ TimerTimeout

Spec == Init /\ [][Next]_vars

\* The dimension sliders, the reset buttons and the Leg Pattern tab.
NextDim ==
    \/ \E label \in DimLabels :
         \E v \in SliderEnds(DimMinimum, DimMaximum) :
            DimensionSliderChanged(label, v)
    \/ reset_dimensions
    \/ reset_view
    \/ \E label \in LegLabels :
         \E v \in SliderEnds(LegMinimum, LegMaximum) :
            LegSliderChanged(label, v)

SpecDim == Init /\ [][NextDim]_vars

\* The Inverse Kinematics tab, with the three dimensions it reads.
NextIk ==
    \/ \E label \in IkLabels :
         \E v \in SliderEnds(IkMinimum(label), IkMaximum(label)) :
            IkSliderChanged(label, v)
    \/ \E label \in {"Front", "Side", "Tibia"} :
         \E v \in SliderEnds(DimMinimum, DimMaximum) :
            DimensionSliderChanged(label, v)

SpecIk == Init /\ [][NextIk]_vars

\* Endless playback: the GaitStep slider and the Tripod checkbox give the
\* cycle lengths, Play, Pause and Step are pressed at will, and an active
\* QTimer keeps delivering timeout: the tick is weakly fair.
NextLive ==
    \/ \E v \in {gait_params.GaitStep.min_val} : GaitSliderChanged("GaitStep", v)
    \/ TripodToggled
    \/ on_gait_play
    \/ on_gait_pause
    \/ on_gait_step_cyclic
    \/ TimerTimeoutCyclic

SpecLive == Init /\ [][NextLive]_vars /\ WF_vars(TimerTimeoutCyclic)

\* Every handler of the window together, each control moved to one
\* position: Tibia, alpha and TZ to their maxima, GaitStep to its minimum.
NextAll ==
    \/ \E v \in {DimMaximum} : DimensionSliderChanged("Tibia", v)
    \/ reset_dimensions
    \/ reset_view
    \/ \E v \in {LegMaximum} : LegSliderChanged("alpha", v)
    \/ \E v \in {IkMaximum("TZ")} : IkSliderChanged("TZ", v)
    \/ \E v \in {gait_params.GaitStep.min_val} : GaitSliderChanged("GaitStep", v)
    \/ TripodToggled
    \/ on_gait_play
    \/ on_gait_pause
    \/ on_gait_step
    \/ TimerTimeout

SpecAll == Init /\ [][NextAll]_vars

(***************************************************************************)
(* Properties.                                                             *)
(***************************************************************************)
\* The handlers that advance playback: the Step button and the timer tick.
PlaybackAdvance == {"on_gait_step", "update_gait"}

\* The indices of the last handler's calls to engine operation op.
CallsTo(op) == {i \in 1..Len(calls) : calls[i].op = op}

\* C1: after any gait-parameter change event the handler has called
\* generate_walking_sequence once, with the parameter set the seven controls
\* now show; that sequence is the stored one; the playback cursor is 0 and
\* the playback timer is stopped.
C1_GaitChangeRegeneratesAndResets ==
    event = "on_gait_parameters_changed" =>
        /\ calls = <<[op |-> "generate_walking_sequence",
                      para |-> [HipSwing  |-> gait_sliders.HipSwing,
                                LiftSwing |-> gait_sliders.LiftSwing,
                                StepNum   |-> gait_sliders.GaitStep,
                                Speed     |-> gait_sliders.GaitSpeed,
                                Gait      |-> IF is_tripod_cb THEN "Tripod" ELSE "Ripple",
                                Direction |-> IF is_forward_cb THEN 1 ELSE -1,
                                Rotation  |-> IF is_rotate_cb THEN 1 ELSE 0]]>>
        /\ walking_sequence # NoWalkingSequence
        /\ walking_sequence.para = calls[1].para
        /\ gait_step = 0
        /\ ~gait_timer.active

\* A gait-parameter change that came after frames had been played and the
\* timer had been started.
C1_Witness ==
    /\ event = "on_gait_parameters_changed"
    /\ robot_pose.kind = "frame"
    /\ robot_pose.t > 0
    /\ gait_timer.interval > 0
    /\ gait_step = 0

\* C2: every frame update_gait applies has index gait_step mod L, L the
\* length of the current sequence; the index lies in [0, L), and the cursor
\* values one cycle later and (when there is one) one cycle earlier give
\* the same index.
C2_PlaybackIsCyclic ==
    \A i \in CallsTo("set_pose_from_walking_sequence") :
        LET L == NumSteps(WalkingSequence)
            c == calls[i].cursor
        IN  /\ calls[i].t = c % L
            /\ calls[i].t >= 0
            /\ calls[i].t < L
            /\ FrameIndex(c + L, L) = calls[i].t
            /\ c >= L => FrameIndex(c - L, L) = calls[i].t

\* A frame applied from a cursor that has gone once round the cycle.
C2_Witness ==
    \E i \in CallsTo("set_pose_from_walking_sequence") :
        /\ calls[i].cursor >= calls[i].num_steps
        /\ calls[i].t = 0

\* C3: with no walking sequence, a timer tick or a Step press applies no
\* frame and changes neither the leg state nor the playback cursor.
C3_AdvanceWithoutSequenceIsNoOp ==
    [][(walking_sequence = NoWalkingSequence /\ event' \in PlaybackAdvance) =>
          /\ calls' = <<>>
          /\ robot_pose' = robot_pose
          /\ gait_step' = gait_step]_vars

\* C4: a timer tick or a Step press leaves the seven gait controls and the
\* stored walking sequence as they were.
C4_AdvanceKeepsParametersAndSequence ==
    [][event' \in PlaybackAdvance =>
          /\ gait_sliders' = gait_sliders
          /\ is_tripod_cb' = is_tripod_cb
          /\ is_forward_cb' = is_forward_cb
          /\ is_rotate_cb' = is_rotate_cb
          /\ walking_sequence' = walking_sequence]_vars

\* A playback advance that applied a frame and moved the cursor.
C4_Witness ==
    /\ event \in PlaybackAdvance
    /\ CallsTo("set_pose_from_walking_sequence") # {}
    /\ robot_pose.kind = "frame"
    /\ gait_step > 1

\* C5: whenever a sequence exists, the cycle length update_gait reads is
\* GaitStep x 2 with Tripod checked and GaitStep x 6 without, for the
\* controls as the last gait-parameter change left them; it is never 0.
C5_CycleLength ==
    walking_sequence # NoWalkingSequence =>
        LET n == NumSteps(WalkingSequence) IN
        /\ n = gait_sliders.GaitStep * (IF is_tripod_cb THEN 2 ELSE 6)
        /\ n = walking_sequence.para.StepNum
                 * (IF walking_sequence.para.Gait = "Tripod" THEN 2 ELSE 6)
        /\ n # 0
        /\ \A i \in CallsTo("set_pose_from_walking_sequence") : calls[i].num_steps = n

\* StepNum = 10 with Tripod: update_gait read a cycle length of 20.
C5_Witness ==
    /\ is_tripod_cb
    /\ gait_sliders.GaitStep = 10
    /\ \E i \in CallsTo("set_pose_from_walking_sequence") : calls[i].num_steps = 20

\* The legs in sub-phase ph at sample index i (0-based) of sequence ws.
LegsIn(ws, ph, i) == {k \in LegIds : ws[k + 1][i + 1] = ph}

\* C6: a generated sequence holds six per-leg sequences of one length; at
\* every sample index, Tripod has triad {0,2,4} in stance and {1,3,5} in
\* swing on the first StepNum indices and the reverse afterwards (three and
\* three), and Ripple has exactly one leg in swing and five in stance.
\* Examined in the state every generation leaves behind.
C6_PhaseCounts ==
    (event = "on_gait_parameters_changed" /\ walking_sequence # NoWalkingSequence) =>
        LET ws == WalkingSequence
            n == Len(ws[1])
        IN  /\ Len(ws) = 6
            /\ \A k \in 1..Len(ws) : Len(ws[k]) = n
            /\ \A i \in 0..(n - 1) :
                 IF is_tripod_cb
                 THEN /\ LegsIn(ws, "stance", i) =
                           (IF i < gait_sliders.GaitStep THEN {0, 2, 4} ELSE {1, 3, 5})
                      /\ LegsIn(ws, "swing", i) = LegIds \ LegsIn(ws, "stance", i)
                      /\ Cardinality(LegsIn(ws, "stance", i)) = 3
                      /\ Cardinality(LegsIn(ws, "swing", i)) = 3
                 ELSE /\ Cardinality(LegsIn(ws, "swing", i)) = 1
                      /\ Cardinality(LegsIn(ws, "stance", i)) = 5

\* A Ripple sequence has just been generated.
C6_Witness ==
    /\ event = "on_gait_parameters_changed"
    /\ walking_sequence # NoWalkingSequence
    /\ ~is_tripod_cb
    /\ Len(WalkingSequence[1]) = 6 * gait_sliders.GaitStep

\* C7: every parameter set passed to generate_walking_sequence is valid:
\* StepNum in [5,20], Speed in [5,20], HipSwing and LiftSwing in [10,40],
\* Gait 'Tripod' or 'Ripple', Direction 1 or -1, Rotation 0 or 1; the
\* engine's InvalidGaitParameters test does not fire.
C7_ParametersValid ==
    \A i \in CallsTo("generate_walking_sequence") :
        LET para == calls[i].para IN
        /\ para.StepNum \in 5..20 /\ para.StepNum >= 1
        /\ para.Speed \in 5..20 /\ para.Speed > 0
        /\ para.HipSwing \in 10..40
        /\ para.LiftSwing \in 10..40
        /\ para.Gait \in {"Tripod", "Ripple"}
        /\ para.Direction \in {1, -1}
        /\ para.Rotation \in {0, 1}
        /\ ValidGaitParameters(para)

\* A parameter set at the ends of the slider ranges, with the three
\* checkboxes away from their initial states.
C7_Witness ==
    \E i \in CallsTo("generate_walking_sequence") :
        /\ calls[i].para.StepNum = 5
        /\ calls[i].para.Speed = 20
        /\ calls[i].para.HipSwing = 40
        /\ calls[i].para.LiftSwing = 10
        /\ calls[i].para.Gait = "Ripple"
        /\ calls[i].para.Direction = -1
        /\ calls[i].para.Rotation = 1

\* C8: every vector passed to update_dimensions has six values, each in
\* [1,20], so the call returns true; the vector last passed is (front,
\* middle, side, coxa, femur, tibia) as the sliders show them; and after a
\* dimension event the plot is redrawn only right after an update_dimensions
\* that returned true.
C8_DimensionVectorsValid ==
    /\ \A i \in CallsTo("update_dimensions") :
          /\ Len(calls[i].values) = 6
          /\ \A j \in 1..Len(calls[i].values) :
                calls[i].values[j] >= 1 /\ calls[i].values[j] <= 20
          /\ calls[i].ret = TRUE
          /\ (\A j \in CallsTo("update_dimensions") : j <= i) =>
                calls[i].values = <<dim_sliders.Front, dim_sliders.Middle,
                                    dim_sliders.Side, dim_sliders.coxa,
                                    dim_sliders.Femur, dim_sliders.Tibia>>
    /\ event = "on_dimension_changed" => Cardinality(CallsTo("update_dimensions")) = 1
    /\ event \in {"on_dimension_changed", "reset_dimensions"} =>
          \A i \in CallsTo("update_plot") :
              /\ i > 1
              /\ calls[i - 1].op = "update_dimensions"
              /\ calls[i - 1].ret = TRUE

\* A dimension-slider move passing both ends of the range, followed by the
\* redraw.
C8_Witness ==
    /\ event = "on_dimension_changed"
    /\ Len(calls) = 2
    /\ calls[1].op = "update_dimensions"
    /\ calls[1].values[1] = 20
    /\ calls[1].values[6] = 1
    /\ calls[1].ret = TRUE
    /\ calls[2].op = "update_plot"

\* C9: every solve_ik request has rotation (RX, RY, RZ), each in [-30,30],
\* and translation tx = TX/100 x front, ty = TY/100 x side,
\* tz = TZ/100 x tibia for the committed dimensions, TX, TY, TZ in
\* [-100,100]; hence |tx| <= front, |ty| <= side, |tz| <= tibia.
\* Translations are in hundredths: 100 tx = TX x front.
C9_IkRequestBounds ==
    \A i \in CallsTo("solve_ik") :
        LET front == robot_dims[1]
            side == robot_dims[3]
            tibia == robot_dims[6]
            r == calls[i].rotation
            tr == calls[i].translation
        IN  /\ r = <<ik_sliders.RX, ik_sliders.RY, ik_sliders.RZ>>
            /\ \A j \in 1..3 : r[j] >= -30 /\ r[j] <= 30
            /\ \A l \in translations : ik_sliders[l] >= -100 /\ ik_sliders[l] <= 100
            /\ tr[1] = ik_sliders.TX * front
            /\ tr[2] = ik_sliders.TY * side
            /\ tr[3] = ik_sliders.TZ * tibia
            /\ tr[1] <= 100 * front /\ -tr[1] <= 100 * front
            /\ tr[2] <= 100 * side /\ -tr[2] <= 100 * side
            /\ tr[3] <= 100 * tibia /\ -tr[3] <= 100 * tibia

\* A request at the ends of the ranges, with front and tibia moved off
\* their defaults.
C9_Witness ==
    \E i \in CallsTo("solve_ik") :
        /\ calls[i].rotation[1] = 30
        /\ calls[i].rotation[3] = -30
        /\ calls[i].translation[1] = 100 * 20
        /\ calls[i].translation[3] = -100 * 1
        /\ robot_dims[1] = 20
        /\ robot_dims[6] = 1

\* C10: after a sequence of length L is generated, the k-th playback
\* advance applies frame (k - 1) mod L.  Stated step by step: the first
\* advance (the cursor still 0) applies frame 0, and every later advance
\* applies the frame after the one applied last.
C10_EveryFrameInTurn ==
    [][(walking_sequence # NoWalkingSequence /\ event' \in PlaybackAdvance) =>
          \E i \in 1..Len(calls') :
             /\ calls'[i].op = "set_pose_from_walking_sequence"
             /\ calls'[i].t =
                   IF gait_step = 0
                   THEN 0
                   ELSE (robot_pose.t + 1) % NumSteps(WalkingSequence)]_vars

\* A sequence exists and the timer is running.
Playing == walking_sequence # NoWalkingSequence /\ gait_timer.active

\* The last handler was a playback advance that applied frame f.
Applied(f) ==
    /\ event \in PlaybackAdvance
    /\ \E i \in CallsTo("set_pose_from_walking_sequence") : calls[i].t = f

\* The frame indices of the longest cycle the controls can ask for.
FrameIndices == 0..(6 * gait_params.GaitStep.max_val - 1)

\* C11: once a sequence exists and the timer runs, and from then on neither
\* Pause nor a gait-parameter change occurs (the timer stays running), every
\* frame index of the cycle is applied again and again.
C11_PlaybackNeverEnds ==
    \A f \in FrameIndices :
        <>[]Playing =>
            []<>(walking_sequence # NoWalkingSequence /\
                 (f >= NumSteps(WalkingSequence) \/ Applied(f)))

\* C12: whenever a frame is applied, the walking sequence was generated
\* from the dimensions and leg lengths the engine holds now: no
\* update_dimensions has succeeded since generate_walking_sequence.
C12_NoStaleSequencePlayed ==
    (event \in PlaybackAdvance /\ CallsTo("set_pose_from_walking_sequence") # {}) =>
        walking_sequence.dims = robot_dims

\* C13: whenever the playback timer is running, its interval is
\* floor(1000 / GaitSpeed) milliseconds for the GaitSpeed slider as it
\* stands, and lies in [50, 200], never 0.
C13_TimerIntervalFollowsSpeed ==
    gait_timer.active =>
        /\ gait_timer.interval * gait_sliders.GaitSpeed <= 1000
        /\ (gait_timer.interval + 1) * gait_sliders.GaitSpeed > 1000
        /\ gait_timer.interval >= 50
        /\ gait_timer.interval <= 200
        /\ gait_timer.interval # 0

\* The timer running at the slowest rate after frames were played: the
\* GaitSpeed slider was moved to 5 and Play pressed afterwards.
C13_Witness ==
    /\ gait_timer.active
    /\ gait_timer.interval = 200
    /\ gait_sliders.GaitSpeed = 5
    /\ gait_step > 0

\* The handlers of the dimension sliders, the leg-pattern and IK sliders
\* and the two reset buttons.
BodyHandlers ==
    {"on_dimension_changed", "on_leg_pattern_changed", "on_ik_changed",
     "reset_dimensions", "reset_view"}

\* C14: a running timer is stopped only by Pause or a gait-parameter
\* change; the cursor is changed only by a gait-parameter change or a
\* playback advance; dimension, leg-pattern, IK, Reset Dimensions and Reset
\* 3D View events leave timer, cursor and walking sequence unchanged; Play
\* and Pause leave the cursor unchanged; and the first tick after Play
\* applies the frame after the one applied last.
C14_OnlyGaitHandlersTouchPlayback ==
    [][/\ (gait_timer.active /\ ~gait_timer'.active) =>
             event' \in {"on_gait_pause", "on_gait_parameters_changed"}
       /\ gait_step' # gait_step =>
             event' \in PlaybackAdvance \cup {"on_gait_parameters_changed"}
       /\ event' \in BodyHandlers =>
             /\ gait_timer' = gait_timer
             /\ gait_step' = gait_step
             /\ walking_sequence' = walking_sequence
       /\ event' \in {"on_gait_play", "on_gait_pause"} => gait_step' = gait_step
       /\ (/\ event = "on_gait_play"
           /\ event' = "update_gait"
           /\ walking_sequence # NoWalkingSequence
           /\ gait_step > 0
           /\ robot_pose.kind = "frame") =>
             robot_pose'.t = (robot_pose.t + 1) % NumSteps(WalkingSequence)]_vars

\* A dimension event in the middle of a running playback: the timer is
\* still running and the cursor still stands inside the sequence.
C14_Witness ==
    /\ event \in {"on_dimension_changed", "reset_dimensions"}
    /\ calls # <<>>
    /\ gait_timer.active
    /\ gait_step > 0
    /\ walking_sequence # NoWalkingSequence
    /\ robot_pose.kind = "frame"

\* C15: once a vector has been passed to update_dimensions, the one passed
\* last is the six dimension sliders as they stand, and the engine holds
\* the same; after a Reset Dimensions press the sliders, the engine and the
\* vector passed last are the defaults, whatever mixes of old and default
\* values the press's (at most six) earlier calls carried.
C15_ControlsAndEngineAgree ==
    LET shown == <<dim_sliders.Front, dim_sliders.Middle, dim_sliders.Side,
                   dim_sliders.coxa, dim_sliders.Femur, dim_sliders.Tibia>>
    IN  /\ dims_passed # NoDimensionsPassed => dims_passed = shown
        /\ robot_dims = shown
        /\ \A i \in CallsTo("update_dimensions") :
              (\A j \in CallsTo("update_dimensions") : j <= i) =>
                  calls[i].values = dims_passed
        /\ event = "reset_dimensions" =>
              /\ shown = default_values
              /\ dims_passed # NoDimensionsPassed => dims_passed = default_values
              /\ Cardinality(CallsTo("update_dimensions")) <= 6

\* A Reset Dimensions press that moved all six sliders: six calls, the
\* first of them carrying a mix that is not the default vector.
C15_Witness ==
    /\ event = "reset_dimensions"
    /\ Cardinality(CallsTo("update_dimensions")) = 6
    /\ calls[1].values # default_values
    /\ dims_passed = default_values

====
